---------------------------- MODULE Spec2Model ----------------------------
(***************************************************************************)
(* Strokes-gained core of sg-tracker: the PGA baseline table, the          *)
(* expected-strokes estimator (src/lib/expectedStrokes.ts), the shot       *)
(* categorizer and the strokes-gained calculator (src/types/golf.ts).      *)
(*                                                                         *)
(* JavaScript numbers are modelled as exact rationals in lowest terms,     *)
(* [k |-> "num", n |-> numerator, d |-> denominator > 0], together with    *)
(* the three non-finite values NaN, Infinity and -Infinity.  null and a    *)
(* thrown exception are two further values of the same record shape, so    *)
(* that "returns unavailable" and "never throws" are statements about a    *)
(* returned value.  Floating-point rounding error is not modelled: every   *)
(* arithmetic step is exact.                                               *)
(***************************************************************************)
EXTENDS Integers, Sequences, FiniteSets, TLC

(***************************************************************************)
(* Numbers                                                                 *)
(***************************************************************************)
RECURSIVE GCD(_, _)
GCD(a, b) == IF b = 0 THEN a ELSE GCD(b, a % b)

Abs(x) == IF x < 0 THEN -x ELSE x

\* The rational n/d (d # 0) in lowest terms with a positive denominator.
Num(n, d) ==
  LET g == GCD(Abs(n), Abs(d))
      s == IF d < 0 THEN -1 ELSE 1
  IN  [k |-> "num", n |-> (s * n) \div g, d |-> (s * d) \div g]

NaN    == [k |-> "NaN", n |-> 0, d |-> 1]
PosInf == [k |-> "Infinity", n |-> 0, d |-> 1]
NegInf == [k |-> "-Infinity", n |-> 0, d |-> 1]
Null   == [k |-> "null", n |-> 0, d |-> 1]
Throws == [k |-> "throw", n |-> 0, d |-> 1]

Zero == Num(0, 1)

\* Number.isFinite(x)
IsFinite(x) == x.k = "num"

\* The sign (-1, 0, 1) of a/b - c/d for b, d > 0, by comparing the integer
\* parts and then the reciprocals of the fractional parts, so that no
\* product of two large numbers is ever formed.
RECURSIVE CmpFrac(_, _, _, _)
CmpFrac(a, b, c, d) ==
  LET qa == a \div b
      qc == c \div d
      ra == a % b
      rc == c % d
  IN  CASE qa < qc -> -1
        [] qa > qc -> 1
        [] ra = 0 /\ rc = 0 -> 0
        [] ra = 0 -> -1
        [] rc = 0 -> 1
        [] OTHER -> CmpFrac(d, rc, b, ra)

\* x <= y, x >= y and x === y of two JavaScript numbers (false when either
\* is NaN).
LessEq(x, y) ==
  CASE x.k = "NaN" \/ y.k = "NaN" -> FALSE
    [] x.k = "-Infinity" \/ y.k = "Infinity" -> TRUE
    [] x.k = "Infinity" \/ y.k = "-Infinity" -> FALSE
    [] OTHER -> CmpFrac(x.n, x.d, y.n, y.d) <= 0

GreaterEq(x, y) == LessEq(y, x)

StrictEq(x, y) == x.k # "NaN" /\ y.k # "NaN" /\ x = y

\* Exact arithmetic on finite numbers.  Common factors are cancelled before
\* multiplying so that intermediate values stay small.
Add(x, y) ==
  LET g == GCD(x.d, y.d)
  IN  Num(x.n * (y.d \div g) + y.n * (x.d \div g), (x.d \div g) * y.d)

Neg(x) == [x EXCEPT !.n = -x.n]

Sub(x, y) == Add(x, Neg(y))

Mul(x, y) ==
  LET g1 == GCD(Abs(x.n), y.d)
      g2 == GCD(Abs(y.n), x.d)
  IN  Num((x.n \div g1) * (y.n \div g2), (x.d \div g2) * (y.d \div g1))

Div(x, y) == Mul(x, Num(y.d, y.n))

\* <<floor(k*r/d), (k*r) % d>> for 0 <= r < d and k >= 0, by doubling.
RECURSIVE MulMod(_, _, _)
MulMod(k, r, d) ==
  IF k = 0 THEN <<0, 0>>
  ELSE IF k % 2 = 0
       THEN LET h == MulMod(k \div 2, r, d)
            IN  <<2 * h[1] + ((2 * h[2]) \div d), (2 * h[2]) % d>>
       ELSE LET h == MulMod(k - 1, r, d)
            IN  <<h[1] + ((h[2] + r) \div d), (h[2] + r) % d>>

\* x * k for a finite x, split as <<integer part, numerator of the
\* fractional part over x.d>>.
Scaled(x, k) ==
  LET h == MulMod(k, x.n % x.d, x.d)
  IN  <<k * (x.n \div x.d) + h[1], h[2]>>

\* Math.round((a - b - c) * 1000) for finite a, b and an integer c.
\* Math.round(y) is floor(y + 0.5): a tie goes towards +Infinity.
RoundDiff1000(a, b, c) ==
  LET sa == Scaled(a, 1000)
      sb == Scaled(b, 1000)
      whole == sa[1] - sb[1] - 1000 * c
      \* the fractional remainder f = sa[2]/a.d - sb[2]/b.d lies in (-1, 1)
      up == CmpFrac(sa[2], a.d, 2 * sb[2] + b.d, 2 * b.d) >= 0   \* f >= 1/2
      down == CmpFrac(2 * sa[2] + a.d, 2 * a.d, sb[2], b.d) < 0  \* f < -1/2
  IN  whole + (IF up THEN 1 ELSE IF down THEN -1 ELSE 0)

(***************************************************************************)
(* Baseline table (expectedStrokes.ts, PGA_BASELINE)                       *)
(***************************************************************************)
Lies == {"TEE", "FAIRWAY", "ROUGH", "BUNKER", "RECOVERY", "GREEN", "FRINGE"}

\* A curve is a sequence of control points <<distance, expected strokes>>.
\* The source writes the strokes with two decimals; they are kept here as
\* hundredths.
Curve(rows) ==
  [i \in DOMAIN rows |-> <<Num(rows[i][1], 1), Num(rows[i][2], 100)>>]

PGA_TEE ==
  Curve(<< <<100, 292>>, <<120, 299>>, <<140, 297>>, <<160, 299>>, <<180, 305>>,
           <<200, 312>>, <<220, 317>>, <<240, 325>>, <<260, 345>>, <<280, 365>>,
           <<300, 371>>, <<320, 379>>, <<340, 386>>, <<360, 392>>, <<380, 396>>,
           <<400, 399>>, <<420, 402>>, <<440, 408>>, <<460, 417>>, <<480, 428>>,
           <<500, 441>>, <<520, 454>>, <<540, 465>>, <<560, 474>>, <<580, 479>>,
           <<600, 482>> >>)

PGA_FAIRWAY ==
  Curve(<< <<20, 240>>, <<40, 260>>, <<60, 270>>, <<80, 275>>, <<100, 280>>,
           <<120, 285>>, <<140, 291>>, <<160, 298>>, <<180, 308>>, <<200, 319>>,
           <<220, 332>>, <<240, 345>>, <<260, 358>>, <<280, 369>>, <<300, 378>>,
           <<320, 384>>, <<340, 388>>, <<360, 395>>, <<380, 403>>, <<400, 411>>,
           <<420, 415>>, <<440, 420>>, <<460, 429>>, <<480, 440>>, <<500, 453>>,
           <<520, 466>>, <<540, 478>>, <<560, 486>>, <<580, 491>>, <<600, 494>> >>)

PGA_ROUGH ==
  Curve(<< <<20, 259>>, <<40, 278>>, <<60, 291>>, <<80, 296>>, <<100, 302>>,
           <<120, 308>>, <<140, 315>>, <<160, 323>>, <<180, 331>>, <<200, 342>>,
           <<220, 353>>, <<240, 364>>, <<260, 374>>, <<280, 383>>, <<300, 390>>,
           <<320, 395>>, <<340, 402>>, <<360, 411>>, <<380, 421>>, <<400, 430>>,
           <<420, 434>>, <<440, 439>>, <<460, 448>>, <<480, 459>>, <<500, 472>>,
           <<520, 485>>, <<540, 497>>, <<560, 505>>, <<580, 510>>, <<600, 513>> >>)

PGA_BUNKER ==
  Curve(<< <<20, 253>>, <<40, 282>>, <<60, 315>>, <<80, 324>>, <<100, 323>>,
           <<120, 321>>, <<140, 322>>, <<160, 328>>, <<180, 340>>, <<200, 355>>,
           <<220, 370>>, <<240, 384>>, <<260, 393>>, <<280, 400>>, <<300, 404>>,
           <<320, 412>>, <<340, 426>>, <<360, 441>>, <<380, 455>>, <<400, 469>>,
           <<420, 473>>, <<440, 478>>, <<460, 487>>, <<480, 498>>, <<500, 511>>,
           <<520, 524>>, <<540, 536>>, <<560, 544>>, <<580, 549>>, <<600, 552>> >>)

PGA_RECOVERY ==
  Curve(<< <<100, 380>>, <<120, 378>>, <<140, 380>>, <<160, 381>>, <<180, 382>>,
           <<200, 387>>, <<220, 392>>, <<240, 397>>, <<260, 403>>, <<280, 410>>,
           <<300, 420>>, <<320, 431>>, <<340, 444>>, <<360, 456>>, <<380, 466>>,
           <<400, 475>>, <<420, 479>>, <<440, 484>>, <<460, 493>>, <<480, 504>>,
           <<500, 517>>, <<520, 530>>, <<540, 542>>, <<560, 550>>, <<580, 555>>,
           <<600, 558>> >>)

PGA_FRINGE == << >>

PGA_GREEN ==
  Curve(<< <<3, 104>>, <<4, 113>>, <<5, 123>>, <<6, 134>>, <<7, 142>>,
           <<8, 150>>, <<9, 156>>, <<10, 161>>, <<15, 178>>, <<20, 187>>,
           <<30, 198>>, <<40, 206>>, <<50, 214>>, <<60, 221>>, <<90, 240>> >>)

ShippedBaseline ==
  [l \in Lies |->
     CASE l = "TEE" -> PGA_TEE
       [] l = "FAIRWAY" -> PGA_FAIRWAY
       [] l = "ROUGH" -> PGA_ROUGH
       [] l = "BUNKER" -> PGA_BUNKER
       [] l = "RECOVERY" -> PGA_RECOVERY
       [] l = "FRINGE" -> PGA_FRINGE
       [] l = "GREEN" -> PGA_GREEN]

(***************************************************************************)
(* Expected-strokes estimator                                              *)
(***************************************************************************)
VARIABLES
  emptied,        \* the lies whose shipped curve is replaced by an empty one
  fringeOwn,      \* whether FRINGE is given a populated curve of its own
  op,             \* the core function called last
  lie,            \* getExpectedStrokes: its lie argument
  distanceM,      \* getExpectedStrokes: its distance argument
  shot,           \* categorizeShot, calculateStrokesGained: the argument
  returned,       \* getExpectedStrokes: the value returned
  category,       \* categorizeShot: the value returned
  frame,          \* calculateStrokesGained: its locals and the value returned
  first,          \* history: an earlier calculateStrokesGained call, its
                  \* result, and the number of calls made since
  round,          \* SummaryPage: the shots of the round shown
  rounds,         \* DashboardPage: the stored rounds, in storage order
  filter,         \* DashboardPage: the filter selected
  capture,        \* RoundPage: the shots stored for the round and the
                  \* state of the entry form
  storage,        \* localStorage: the stored rounds and the migration key,
                  \* with the last storage operation and what it loaded
  sessions        \* two RoundPage sessions open on one round: the shots of
                  \* the stored round and the state of either page

vars ==
  <<emptied, fringeOwn, op, lie, distanceM, shot, returned, category, frame,
    first, round, rounds, filter, capture, storage, sessions>>

\* The state of the pages, which no core function touches.
pageVars == <<round, rounds, filter, capture, storage, sessions>>

\* The call in progress in the core, which no page action touches.
callVars == <<op, lie, distanceM, shot, returned, category, frame, first>>

\* A populated curve for FRINGE, which the shipped table leaves empty.
FringeProbe == Curve(<< <<10, 150>>, <<50, 350>> >>)

\* The table the process runs with: the shipped one, or the shipped one
\* with some curves emptied or with a FRINGE curve added.  It is fixed at
\* start-up and read-only afterwards.
PGA_BASELINE ==
  [l \in Lies |->
     IF l \in emptied THEN << >>
     ELSE IF l = "FRINGE" /\ fringeOwn THEN FringeProbe
     ELSE ShippedBaseline[l]]

IsShipped == emptied = {} /\ ~fringeOwn

FeetPerMeter  == Num(328084, 100000)
MetersPerYard == Num(9144, 10000)

\* Variant of baselineIsComplete that asks for a curve of every lie.
baselineIsComplete_everyLie ==
  \A l \in Lies : Len(PGA_BASELINE[l]) > 0

baselineIsComplete ==
  /\ Len(PGA_BASELINE["TEE"]) > 0
  /\ Len(PGA_BASELINE["FAIRWAY"]) > 0
  /\ Len(PGA_BASELINE["ROUGH"]) > 0
  /\ Len(PGA_BASELINE["BUNKER"]) > 0
  /\ Len(PGA_BASELINE["RECOVERY"]) > 0
  /\ Len(PGA_BASELINE["GREEN"]) > 0

\* Variant of the loop of interpolate with the weight taken from the far
\* end of the segment.
RECURSIVE interpolateLoop_reversed(_, _, _)
interpolateLoop_reversed(points, distance, i) ==
  IF i > Len(points) - 1
  THEN points[Len(points)][2]
  ELSE LET d0 == points[i][1]
           s0 == points[i][2]
           d1 == points[i + 1][1]
           s1 == points[i + 1][2]
       IN  IF GreaterEq(distance, d0) /\ LessEq(distance, d1)
           THEN LET t == Div(Sub(d1, distance), Sub(d1, d0))
                IN  Add(s0, Mul(t, Sub(s1, s0)))
           ELSE interpolateLoop_reversed(points, distance, i + 1)

\* The for loop of interpolate, from the pair (points[i], points[i+1]) on
\* (sequences are 1-based here, arrays 0-based in the source).
RECURSIVE interpolateLoop(_, _, _)
interpolateLoop(points, distance, i) ==
  IF i > Len(points) - 1
  THEN points[Len(points)][2]
  ELSE LET d0 == points[i][1]
           s0 == points[i][2]
           d1 == points[i + 1][1]
           s1 == points[i + 1][2]
       IN  IF GreaterEq(distance, d0) /\ LessEq(distance, d1)
           THEN LET t == Div(Sub(distance, d0), Sub(d1, d0))
                IN  Add(s0, Mul(t, Sub(s1, s0)))
           ELSE interpolateLoop(points, distance, i + 1)

\* Variant of interpolate that takes the nearest control point below
\* instead of interpolating inside a segment.
interpolate_step(points, distance) ==
  IF Len(points) = 0 THEN Throws
  ELSE IF LessEq(distance, points[1][1]) THEN points[1][2]
  ELSE IF GreaterEq(distance, points[Len(points)][1]) THEN points[Len(points)][2]
  ELSE LET i == CHOOSE j \in 1 .. Len(points) - 1 :
                  GreaterEq(distance, points[j][1]) /\ ~GreaterEq(distance, points[j + 1][1])
       IN  points[i][2]

\* Reading points[0][0] of an empty table throws a TypeError.
interpolate(points, distance) ==
  IF Len(points) = 0 THEN Throws
  ELSE IF LessEq(distance, points[1][1]) THEN points[1][2]
  ELSE IF GreaterEq(distance, points[Len(points)][1]) THEN points[Len(points)][2]
  ELSE interpolateLoop(points, distance, 1)

\* Variants of getExpectedStrokes with one plausible slip each.
\* The empty-curve test placed before the distance test.
getExpectedStrokes_emptyFirst(l, d) ==
  LET lookupLie == IF l = "FRINGE" THEN "FAIRWAY" ELSE l
      points == PGA_BASELINE[lookupLie]
  IN  IF Len(points) = 0 THEN Null
      ELSE IF ~IsFinite(d) \/ LessEq(d, Zero) THEN Zero
      ELSE IF l = "GREEN" THEN interpolate(points, Mul(d, FeetPerMeter))
      ELSE interpolate(points, Div(d, MetersPerYard))

\* No empty-curve test for the lies other than GREEN.
getExpectedStrokes_unguarded(l, d) ==
  IF ~IsFinite(d) \/ LessEq(d, Zero) THEN Zero
  ELSE IF l = "GREEN"
  THEN LET greenPoints == PGA_BASELINE["GREEN"]
       IN  IF Len(greenPoints) = 0 THEN Null
           ELSE interpolate(greenPoints, Mul(d, FeetPerMeter))
  ELSE LET lookupLie == IF l = "FRINGE" THEN "FAIRWAY" ELSE l
       IN  interpolate(PGA_BASELINE[lookupLie], Div(d, MetersPerYard))

\* FRINGE looked up in its own curve.
getExpectedStrokes_noAlias(l, d) ==
  IF ~IsFinite(d) \/ LessEq(d, Zero) THEN Zero
  ELSE IF Len(PGA_BASELINE[l]) = 0 THEN Null
  ELSE IF l = "GREEN" THEN interpolate(PGA_BASELINE[l], Mul(d, FeetPerMeter))
  ELSE interpolate(PGA_BASELINE[l], Div(d, MetersPerYard))

getExpectedStrokes(l, d) ==
  IF ~IsFinite(d) \/ LessEq(d, Zero) THEN Zero
  ELSE IF l = "GREEN"
  THEN LET greenPoints == PGA_BASELINE["GREEN"]
       IN  IF Len(greenPoints) = 0 THEN Null
           ELSE interpolate(greenPoints, Mul(d, FeetPerMeter))
  ELSE LET lookupLie == IF l = "FRINGE" THEN "FAIRWAY" ELSE l
           points == PGA_BASELINE[lookupLie]
       IN  IF Len(points) = 0 THEN Null
           ELSE interpolate(points, Div(d, MetersPerYard))

(***************************************************************************)
(* Shot categorizer and strokes-gained calculator                          *)
(***************************************************************************)
\* shot.putts is optional: << >> when absent, <<n>> when present.
HasPutts(s) == Len(s.putts) = 1

\* Variant of categorizeShot with the 30 m boundary on the APP side.
categorizeShot_strict(s) ==
  IF s.startLie = "TEE" THEN "OTT"
  ELSE IF s.startLie = "GREEN" THEN "PUTT"
  ELSE IF s.startLie = "FRINGE" THEN "ARG"
  ELSE IF s.startLie = "BUNKER" \/ s.startLie = "RECOVERY" THEN "ARG"
  ELSE IF LessEq(s.startDistance, Num(30, 1)) /\ s.startDistance # Num(30, 1)
       THEN "ARG" ELSE "APP"

categorizeShot(s) ==
  IF s.startLie = "TEE" THEN "OTT"
  ELSE IF s.startLie = "GREEN" THEN "PUTT"
  ELSE IF s.startLie = "FRINGE" THEN "ARG"
  ELSE IF s.startLie = "BUNKER" \/ s.startLie = "RECOVERY" THEN "ARG"
  ELSE IF LessEq(s.startDistance, Num(30, 1)) THEN "ARG" ELSE "APP"

\* Variants of isHoled: a putt count that only counts together with a holed
\* end position, and a putt count that counts from any start lie.
isHoled_endOnly(s) ==
  s.endLie = "GREEN" /\ StrictEq(s.endDistance, Zero)

isHoled_anyStartLie(s) ==
  \/ s.endLie = "GREEN" /\ StrictEq(s.endDistance, Zero)
  \/ HasPutts(s)

isHoled(s) ==
  \/ s.endLie = "GREEN" /\ StrictEq(s.endDistance, Zero)
  \/ s.startLie = "GREEN" /\ HasPutts(s)

\* Variant of strokesUsed that counts a putt count from any start lie.
strokesUsed_anyLie(s) ==
  IF HasPutts(s)
  THEN s.putts[1] + s.penaltyStrokes
  ELSE 1 + s.penaltyStrokes

strokesUsed(s) ==
  IF s.startLie = "GREEN" /\ HasPutts(s)
  THEN s.putts[1] + s.penaltyStrokes
  ELSE 1 + s.penaltyStrokes

\* The locals of one call of calculateStrokesGained and the value it
\* returns.  lookups lists the getExpectedStrokes calls made, in order; threw
\* tells that an exception left the call (then nothing is returned);
\* strokesUsed is 0 on the paths that leave before computing it.
sgFrame(s) ==
  LET expectedStart == getExpectedStrokes(s.startLie, s.startDistance)
      startThrew == expectedStart = Throws
      expectedEnd ==
        IF startThrew THEN Throws
        ELSE IF isHoled(s) THEN Zero
        ELSE getExpectedStrokes(s.endLie, s.endDistance)
      threw == startThrew \/ expectedEnd = Throws
  IN  [expectedStart |-> expectedStart,
       isHoled       |-> isHoled(s),
       expectedEnd   |-> expectedEnd,
       lookups       |->
         <<<<s.startLie, s.startDistance>>>>
           \o (IF startThrew \/ isHoled(s) THEN << >>
               ELSE <<<<s.endLie, s.endDistance>>>>),
       threw         |-> threw,
       strokesUsed   |->
         IF threw \/ expectedStart = Null \/ expectedEnd = Null
         THEN 0 ELSE strokesUsed(s),
       result        |->
         IF threw
         THEN [sg |-> Throws, category |-> "none", isValid |-> FALSE]
         ELSE IF expectedStart = Null \/ expectedEnd = Null
         THEN [sg |-> Null, category |-> "APP", isValid |-> FALSE]
         ELSE [sg       |-> Num(RoundDiff1000(expectedStart, expectedEnd,
                                              strokesUsed(s)), 1000),
               category |-> categorizeShot(s),
               isValid  |-> TRUE]]

calculateStrokesGained(s) == sgFrame(s).result

(***************************************************************************)
(* Inputs                                                                  *)
(***************************************************************************)
MaxEmptied   == 1    \* curves of the shipped table replaced by an empty one
MaxMeters    == 31   \* distances entered in half metres up to this
MaxYardTens  == 61   \* distances that are a multiple of ten yards
MaxFeet      == 91   \* distances that are a whole number of feet
MaxPutts     == 2
MaxPenalty   == 1
MaxBetween   == 2    \* calls followed after a remembered call

\* The tables tried: up to MaxEmptied of the populated curves emptied, or a
\* FRINGE curve added.
EmptiedSets ==
  {X \in SUBSET (Lies \ {"FRINGE"}) : Cardinality(X) <= MaxEmptied}

NonFinite == {NaN, PosInf, NegInf}

MeterDistances == {Num(h, 2) : h \in -2 .. 2 * MaxMeters} \cup NonFinite
YardDistances  == {Mul(Num(10 * y, 1), MetersPerYard) : y \in 1 .. MaxYardTens}
FeetDistances  == {Div(Num(f, 1), FeetPerMeter) : f \in 1 .. MaxFeet}

\* The (lie, distance) pairs getExpectedStrokes is called with.
Positions ==
  (Lies \X MeterDistances)
    \cup ((Lies \ {"GREEN"}) \X YardDistances)
    \cup ({"GREEN"} \X FeetDistances)

StartPositions ==
  Lies \X {Num(0, 1), Num(3, 1), Num(30, 1), Num(61, 2), NaN}

EndPositions ==
  Lies \X {Num(0, 1), Num(3, 1), Num(127, 2), Num(120, 1)}

OptionalPutts == {<< >>} \cup {<<n>> : n \in 1 .. MaxPutts}

Shots ==
  {[holeNumber     |-> 1,
    shotNumber     |-> 1,
    startLie       |-> sp[1],
    startDistance  |-> sp[2],
    endLie         |-> ep[1],
    endDistance    |-> ep[2],
    penaltyStrokes |-> pen,
    putts          |-> pu] :
      sp \in StartPositions, ep \in EndPositions,
      pen \in 0 .. MaxPenalty, pu \in OptionalPutts}

NoShot ==
  [holeNumber |-> 0, shotNumber |-> 0, startLie |-> "TEE", startDistance |-> Zero,
   endLie |-> "TEE", endDistance |-> Zero, penaltyStrokes |-> 0, putts |-> << >>]

\* RoundPage as mounted on a round without shots: useState defaults, hole 1.
\* A text field holds << >> when empty and <<n>> when the number n is typed;
\* endLieSelection "null" and puttsCount 0 stand for null; endedAt tells
\* whether round.endedAt is set.
NoCapture ==
  [shots |-> << >>, holeNumber |-> 1, startLie |-> "TEE",
   startDistance |-> << >>, endLieSelection |-> "null", endDistance |-> << >>,
   puttsCount |-> 0, penaltyStrokes |-> 0, holed |-> FALSE,
   endedAt |-> FALSE]

\* Two sessions of RoundPage, say two browser tabs, opened on a round without
\* shots: stored holds the shots of the round in localStorage, page[t] the
\* state of session t, whose shots field is the round that session holds.
Tabs == 1 .. 2

NoSessions == [stored |-> << >>, page |-> [t \in Tabs |-> NoCapture]]

\* localStorage of a fresh install: neither STORAGE_KEY nor MIGRATION_KEY is
\* set.  item is the list stored under STORAGE_KEY, << >> when the key is
\* absent; key tells whether MIGRATION_KEY is set; op, before and loaded
\* remember the last storage operation, the list stored before it and the
\* list its loadRounds returned.
NoStorage ==
  [item |-> << >>, key |-> FALSE, op |-> "none", before |-> << >>,
   loaded |-> << >>]

\* No earlier call is remembered.
NoFirst ==
  [set |-> FALSE, shot |-> NoShot,
   result |-> [sg |-> Null, category |-> "none", isValid |-> FALSE],
   between |-> 0]

NoFrame ==
  [expectedStart |-> Zero, isHoled |-> FALSE, expectedEnd |-> Zero, lookups |-> << >>,
   threw |-> FALSE, strokesUsed |-> 0,
   result |-> [sg |-> Null, category |-> "none", isValid |-> FALSE]]

(***************************************************************************)
(* The core as a state machine: the table is fixed at start-up; from the   *)
(* idle state a caller invokes one of the three exported functions with    *)
(* any argument, the state then shows the call and what it returned, and   *)
(* Return leads back to idle.  No call writes PGA_BASELINE.                *)
(***************************************************************************)
Idle ==
  /\ op' = "idle"
  /\ lie' = "TEE"
  /\ distanceM' = Zero
  /\ shot' = NoShot
  /\ returned' = Zero
  /\ category' = "none"
  /\ frame' = NoFrame

Init ==
  /\ emptied \in EmptiedSets
  /\ fringeOwn \in BOOLEAN
  /\ fringeOwn => emptied = {}
  /\ op = "idle"
  /\ lie = "TEE"
  /\ distanceM = Zero
  /\ shot = NoShot
  /\ returned = Zero
  /\ category = "none"
  /\ frame = NoFrame
  /\ first = NoFirst
  /\ round = << >>
  /\ rounds = << >>
  /\ filter = "10"
  /\ capture = NoCapture
  /\ storage = NoStorage
  /\ sessions = NoSessions

\* The history of an earlier call, one call later.
Later(f) == IF f.set THEN [f EXCEPT !.between = @ + 1] ELSE f

CallGetExpectedStrokes ==
  /\ op = "idle"
  /\ first.between < MaxBetween
  /\ \E p \in Positions :
       /\ op' = "getExpectedStrokes"
       /\ lie' = p[1]
       /\ distanceM' = p[2]
       /\ returned' = getExpectedStrokes(p[1], p[2])
  /\ first' = Later(first)
  /\ UNCHANGED <<emptied, fringeOwn, shot, category, frame, pageVars>>

CallCategorizeShot ==
  /\ op = "idle"
  /\ first.between < MaxBetween
  /\ \E s \in Shots :
       /\ op' = "categorizeShot"
       /\ shot' = s
       /\ category' = categorizeShot(s)
  /\ first' = Later(first)
  /\ UNCHANGED <<emptied, fringeOwn, lie, distanceM, returned, frame, pageVars>>

CallCalculateStrokesGained ==
  /\ op = "idle"
  /\ first.between < MaxBetween
  /\ \E s \in Shots :
       /\ op' = "calculateStrokesGained"
       /\ shot' = s
       /\ frame' = sgFrame(s)
  /\ first' = Later(first)
  /\ UNCHANGED <<emptied, fringeOwn, lie, distanceM, returned, category,
                 pageVars>>

\* Variant of Return in which returning drops the FAIRWAY curve.
Return_dropsCurve ==
  /\ op # "idle"
  /\ Idle
  /\ emptied' = emptied \cup {"FAIRWAY"}
  /\ UNCHANGED <<fringeOwn, first, pageVars>>

Return ==
  /\ op # "idle"
  /\ Idle
  /\ UNCHANGED <<emptied, fringeOwn, first, pageVars>>

Next ==
  \/ CallGetExpectedStrokes
  \/ CallCategorizeShot
  \/ CallCalculateStrokesGained
  \/ Return

Spec == Init /\ [][Next]_vars

(***************************************************************************)
(* The same machine with one calculateStrokesGained call remembered, to    *)
(* compare a later call on the same shot with it.                          *)
(***************************************************************************)
\* The shots whose first call is remembered: a start on the FAIRWAY or on
\* the GREEN, at 3 m, with and without a putt count, left short of the hole.
ProbeShots ==
  {s \in Shots :
     /\ s.startLie \in {"FAIRWAY", "GREEN"}
     /\ s.startDistance = Num(3, 1)
     /\ s.endLie = "BUNKER"
     /\ s.endDistance = Num(127, 2)
     /\ s.penaltyStrokes = 0
     /\ s.putts \in {<< >>, <<2>>}}

InitTwice ==
  /\ Init
  /\ emptied \in {{}, {"FAIRWAY"}}
  /\ ~fringeOwn

CallCalculateStrokesGainedFirst ==
  /\ op = "idle"
  /\ ~first.set
  /\ \E s \in ProbeShots :
       /\ op' = "calculateStrokesGained"
       /\ shot' = s
       /\ frame' = sgFrame(s)
       /\ first' = [set |-> TRUE, shot |-> s, result |-> sgFrame(s).result,
                    between |-> 0]
  /\ UNCHANGED <<emptied, fringeOwn, lie, distanceM, returned, category,
                 pageVars>>

NextTwice ==
  \/ CallCalculateStrokesGainedFirst
  \/ Next

SpecTwice == InitTwice /\ [][NextTwice]_vars

(***************************************************************************)
(* Properties of the estimator                                             *)
(***************************************************************************)
\* The curve a lie resolves to, and a distance in that curve's unit.
ResolvedLie(l) == IF l = "FRINGE" THEN "FAIRWAY" ELSE l

ResolvedCurve(l) == PGA_BASELINE[ResolvedLie(l)]

InCurveUnit(l, d) ==
  IF l = "GREEN" THEN Mul(d, Num(328084, 100000)) ELSE Div(d, Num(9144, 10000))

FinitePositive(d) == IsFinite(d) /\ ~LessEq(d, Zero)

\* The piecewise-linear reference: clamp below the first and above the last
\* control point, otherwise interpolate in the first segment that holds x.
Holds(points, i, x) == LessEq(points[i][1], x) /\ LessEq(x, points[i + 1][1])

PiecewiseLinear(points, x) ==
  LET n == Len(points)
  IN  IF LessEq(x, points[1][1]) THEN points[1][2]
      ELSE IF LessEq(points[n][1], x) THEN points[n][2]
      ELSE LET i == CHOOSE j \in 1 .. n - 1 :
                      Holds(points, j, x) /\ \A h \in 1 .. j - 1 : ~Holds(points, h, x)
               rise == Sub(points[i + 1][2], points[i][2])
               run  == Sub(points[i + 1][1], points[i][1])
           IN  Add(points[i][2], Div(Mul(Sub(x, points[i][1]), rise), run))

\* C1: for a lie whose resolved curve is not empty and a finite distance
\* > 0, getExpectedStrokes returns the piecewise-linear reference of the
\* distance converted to the curve's unit.
C1_MatchesPiecewiseLinear ==
  (op = "getExpectedStrokes" /\ FinitePositive(distanceM)
     /\ Len(ResolvedCurve(lie)) > 0)
    => returned = PiecewiseLinear(ResolvedCurve(lie), InCurveUnit(lie, distanceM))

\* A call strictly inside a segment: 25 m from the fairway is between the
\* control points at 20 and 40 yards, and the value lies between theirs.
C1_Witness ==
  /\ op = "getExpectedStrokes"
  /\ lie = "FAIRWAY"
  /\ distanceM = Num(25, 1)
  /\ IsShipped
  /\ ~LessEq(returned, Num(240, 100))
  /\ ~LessEq(Num(260, 100), returned)

\* C2: for every lie, a distance that is <= 0 or not finite gives exactly 0,
\* never null, also when the lie's curve is empty.
C2_NonPositiveIsZero ==
  (op = "getExpectedStrokes" /\ ~FinitePositive(distanceM)) => returned = Zero

\* A not-a-number distance on a lie whose curve is empty.
C2_Witness ==
  /\ op = "getExpectedStrokes"
  /\ Len(ResolvedCurve(lie)) = 0
  /\ distanceM = NaN
  /\ returned = Zero

\* C3: for a finite distance > 0, getExpectedStrokes returns null exactly
\* when the resolved curve is empty; it never throws, and it does not return
\* 0 for an empty curve.
C3_NullIffEmptyCurve ==
  (op = "getExpectedStrokes" /\ FinitePositive(distanceM))
    => /\ (returned = Null) <=> (Len(ResolvedCurve(lie)) = 0)
       /\ returned # Throws
       /\ (Len(ResolvedCurve(lie)) = 0 => returned # Zero)

\* FRINGE with an emptied FAIRWAY curve: unavailable.
C3_Witness ==
  /\ op = "getExpectedStrokes"
  /\ lie = "FRINGE"
  /\ FinitePositive(distanceM)
  /\ Len(PGA_BASELINE["FAIRWAY"]) = 0
  /\ returned = Null

\* C4: getExpectedStrokes(FRINGE, d) = getExpectedStrokes(FAIRWAY, d) for
\* every d, whatever FRINGE's own curve holds; categorizeShot gives ARG for
\* a FRINGE start at every distance, and for a FAIRWAY start ARG when
\* startDistance <= 30 and APP otherwise.
C4_FringeAliasesFairway ==
  /\ (op = "getExpectedStrokes" /\ lie = "FRINGE")
       => returned = getExpectedStrokes("FAIRWAY", distanceM)
  /\ (op = "getExpectedStrokes" /\ lie = "FAIRWAY")
       => returned = getExpectedStrokes("FRINGE", distanceM)
  /\ (op = "categorizeShot" /\ shot.startLie = "FRINGE") => category = "ARG"
  /\ (op = "categorizeShot" /\ shot.startLie = "FAIRWAY")
       => category = (IF LessEq(shot.startDistance, Num(30, 1)) THEN "ARG" ELSE "APP")

\* FRINGE has a curve of its own that would give another value, and the
\* FAIRWAY value is returned.
C4_Witness ==
  /\ op = "getExpectedStrokes"
  /\ lie = "FRINGE"
  /\ FinitePositive(distanceM)
  /\ Len(PGA_BASELINE["FRINGE"]) > 0
  /\ returned = PiecewiseLinear(PGA_BASELINE["FAIRWAY"], InCurveUnit("FAIRWAY", distanceM))
  /\ returned # PiecewiseLinear(PGA_BASELINE["FRINGE"], InCurveUnit("FRINGE", distanceM))

PopulatedLies == {"TEE", "FAIRWAY", "ROUGH", "BUNKER", "RECOVERY", "GREEN"}

\* The distance lies between the first and the last control distance of
\* the lie's shipped curve.
WithinCurve(l, d) ==
  /\ FinitePositive(d)
  /\ LessEq(ShippedBaseline[l][1][1], InCurveUnit(l, d))
  /\ LessEq(InCurveUnit(l, d), ShippedBaseline[l][Len(ShippedBaseline[l])][1])

\* The value returned is at most the value at every longer distance within
\* the curve.
NoLongerDistanceGivesLess ==
  \A p \in Positions :
    (p[1] = lie /\ WithinCurve(lie, p[2]) /\ LessEq(distanceM, p[2]))
      => LessEq(returned, getExpectedStrokes(lie, p[2]))

\* C5 as stated: on every populated curve of the shipped table, between the
\* curve's first and last control distance, a longer distance never gives
\* fewer expected strokes.
C5_MonotoneOnShippedCurves ==
  (op = "getExpectedStrokes" /\ IsShipped
     /\ lie \in PopulatedLies /\ WithinCurve(lie, distanceM))
    => NoLongerDistanceGivesLess

\* C5 amended: the same on the FAIRWAY, ROUGH and GREEN curves of the
\* shipped table.
C5_MonotoneOnFairwayRoughGreen ==
  (op = "getExpectedStrokes" /\ IsShipped
     /\ lie \in {"FAIRWAY", "ROUGH", "GREEN"} /\ WithinCurve(lie, distanceM))
    => NoLongerDistanceGivesLess

\* A call on the ROUGH curve strictly inside a segment, with a longer
\* distance that gives strictly more.
C5_Witness ==
  /\ op = "getExpectedStrokes"
  /\ IsShipped
  /\ lie = "ROUGH"
  /\ distanceM = Num(25, 1)
  /\ WithinCurve(lie, distanceM)
  /\ \E p \in Positions :
       /\ p[1] = lie
       /\ WithinCurve(lie, p[2])
       /\ LessEq(distanceM, p[2])
       /\ ~LessEq(getExpectedStrokes(lie, p[2]), returned)

(***************************************************************************)
(* Properties of the categorizer and the calculator                        *)
(***************************************************************************)
Categories == {"OTT", "APP", "ARG", "PUTT"}

Greater(x, y) == LessEq(y, x) /\ ~LessEq(x, y)

\* C6: categorizeShot gives every shot one of the four categories, by its
\* startLie: TEE -> OTT, GREEN -> PUTT, FRINGE, BUNKER, RECOVERY -> ARG,
\* FAIRWAY or ROUGH -> ARG when startDistance <= 30 (30 included) and APP
\* when startDistance > 30.
C6_CategoryByStartLie ==
  op = "categorizeShot"
    => /\ category \in Categories
       /\ shot.startLie = "TEE" => category = "OTT"
       /\ shot.startLie = "GREEN" => category = "PUTT"
       /\ shot.startLie \in {"FRINGE", "BUNKER", "RECOVERY"} => category = "ARG"
       /\ (shot.startLie \in {"FAIRWAY", "ROUGH"}
             /\ LessEq(shot.startDistance, Num(30, 1))) => category = "ARG"
       /\ (shot.startLie \in {"FAIRWAY", "ROUGH"}
             /\ Greater(shot.startDistance, Num(30, 1))) => category = "APP"

\* A fairway shot from exactly 30 m is ARG.
C6_Witness ==
  /\ op = "categorizeShot"
  /\ shot.startLie = "FAIRWAY"
  /\ shot.startDistance = Num(30, 1)
  /\ category = "ARG"

\* The shots that agree with s on startLie and startDistance.
SameStart(s) ==
  {[s EXCEPT !.endLie = ep[1], !.endDistance = ep[2],
             !.penaltyStrokes = pen, !.putts = pu] :
     ep \in EndPositions, pen \in 0 .. MaxPenalty, pu \in OptionalPutts}

\* C7: two shots with the same startLie and startDistance get the same
\* category from calculateStrokesGained, whatever the rest of them is.
C7_CategoryDependsOnStartOnly ==
  op = "calculateStrokesGained"
    => \A s2 \in SameStart(shot) :
         calculateStrokesGained(s2).category = frame.result.category

\* C8: when expectedStart or expectedEnd is unavailable,
\* calculateStrokesGained returns, without throwing, sg = null,
\* isValid = false and the category categorizeShot gives the shot.
C8_InvalidKeepsCategory ==
  (op = "calculateStrokesGained"
     /\ (frame.expectedStart = Null \/ frame.expectedEnd = Null))
    => /\ ~frame.threw
       /\ frame.result.sg = Null
       /\ frame.result.isValid = FALSE
       /\ frame.result.category = categorizeShot(shot)

\* The shot counts as holed, from its fields alone.
Holed(s) ==
  \/ s.endLie = "GREEN" /\ s.endDistance = Zero
  \/ s.startLie = "GREEN" /\ s.putts # << >>

Invalid(r) == r.sg = Null /\ r.isValid = FALSE

Valid(r) == IsFinite(r.sg) /\ r.isValid = TRUE

\* C9 as stated: the result is invalid exactly when getExpectedStrokes is
\* unavailable for the start position or for the end position.
C9_InvalidIffEitherPositionUnavailable ==
  op = "calculateStrokesGained"
    => LET unavailable ==
             \/ getExpectedStrokes(shot.startLie, shot.startDistance) = Null
             \/ getExpectedStrokes(shot.endLie, shot.endDistance) = Null
       IN  /\ unavailable => Invalid(frame.result)
           /\ ~unavailable => Valid(frame.result)

\* C9 amended: the result is invalid exactly when getExpectedStrokes is
\* unavailable for the start position, or the shot does not count as holed
\* and getExpectedStrokes is unavailable for the end position.
C9_InvalidIffConsultedPositionUnavailable ==
  op = "calculateStrokesGained"
    => LET unavailable ==
             \/ getExpectedStrokes(shot.startLie, shot.startDistance) = Null
             \/ /\ ~Holed(shot)
                /\ getExpectedStrokes(shot.endLie, shot.endDistance) = Null
       IN  /\ unavailable => Invalid(frame.result)
           /\ ~unavailable => Valid(frame.result)

\* A putting sequence whose recorded end position lies on a curve that is
\* empty: the end position is unavailable and the result is valid.
C9_Witness ==
  /\ op = "calculateStrokesGained"
  /\ shot.startLie = "GREEN"
  /\ shot.putts # << >>
  /\ getExpectedStrokes(shot.endLie, shot.endDistance) = Null
  /\ Valid(frame.result)

\* C10: expectedEnd is 0, and the end position is not looked up, exactly
\* when the shot counts as holed; otherwise expectedEnd is
\* getExpectedStrokes(endLie, endDistance).
C10_ExpectedEndZeroIffHoled ==
  op = "calculateStrokesGained"
    => /\ Holed(shot)
            => /\ frame.expectedEnd = Zero
               /\ frame.lookups = <<<<shot.startLie, shot.startDistance>>>>
       /\ ~Holed(shot)
            => /\ frame.expectedEnd
                    = getExpectedStrokes(shot.endLie, shot.endDistance)
               /\ frame.lookups = <<<<shot.startLie, shot.startDistance>>,
                                    <<shot.endLie, shot.endDistance>>>>

\* A putting sequence whose recorded end position would need strokes
\* according to the table: expectedEnd is 0 all the same.
C10_Witness ==
  /\ op = "calculateStrokesGained"
  /\ shot.startLie = "GREEN"
  /\ shot.putts # << >>
  /\ IsFinite(getExpectedStrokes(shot.endLie, shot.endDistance))
  /\ getExpectedStrokes(shot.endLie, shot.endDistance) # Zero
  /\ frame.expectedEnd = Zero
  /\ frame.result.isValid

(***************************************************************************)
(* Properties of the strokes used and of the rounding                      *)
(***************************************************************************)
\* The shot with its putt count replaced.
WithPutts(s, pu) == [s EXCEPT !.putts = pu]

\* C11: a valid shot uses putts + penaltyStrokes strokes when it starts on
\* the GREEN with a putt count, and 1 + penaltyStrokes otherwise; off the
\* GREEN the putt count makes no difference to the strokes used.
C11_StrokesUsed ==
  (op = "calculateStrokesGained" /\ Valid(frame.result))
    => /\ (shot.startLie = "GREEN" /\ HasPutts(shot))
            => frame.strokesUsed = shot.putts[1] + shot.penaltyStrokes
       /\ ~(shot.startLie = "GREEN" /\ HasPutts(shot))
            => frame.strokesUsed = 1 + shot.penaltyStrokes
       /\ shot.startLie # "GREEN"
            => \A pu \in OptionalPutts :
                 sgFrame(WithPutts(shot, pu)).strokesUsed = frame.strokesUsed

\* A valid shot from off the GREEN that carries a putt count of two.
C11_Witness ==
  /\ op = "calculateStrokesGained"
  /\ Valid(frame.result)
  /\ shot.startLie = "ROUGH"
  /\ shot.putts = <<2>>
  /\ shot.penaltyStrokes = 1
  /\ frame.strokesUsed = 2

\* x * 1000 rounded to an integer, a tie going away from zero.
RoundHalfAway1000(x) ==
  LET m == Scaled([x EXCEPT !.n = Abs(x.n)], 1000)
      r == m[1] + (IF 2 * m[2] >= x.d THEN 1 ELSE 0)
  IN  IF x.n < 0 THEN -r ELSE r

rawSG == Sub(Sub(frame.expectedStart, frame.expectedEnd),
             Num(frame.strokesUsed, 1))

\* C12: the sg of a valid shot is expectedStart - expectedEnd - strokesUsed
\* rounded to three decimals, a tie at the third decimal going away from
\* zero, for positive and negative values alike.
C12_RoundsHalfAwayFromZero ==
  (op = "calculateStrokesGained" /\ Valid(frame.result))
    => frame.result.sg = Num(RoundHalfAway1000(rawSG), 1000)

MaxShots == 3   \* shots of the round shown on the summary page

MkShot(sl, sd, el, ed, pen, pu) ==
  [holeNumber |-> 1, shotNumber |-> 1, startLie |-> sl, startDistance |-> sd,
   endLie |-> el, endDistance |-> ed, penaltyStrokes |-> pen, putts |-> pu]

\* The shots a round is made of: one per category and per distance bucket,
\* with the bucket boundary of 100 m, a holed approach, a putt sequence and a
\* start on the GREEN beyond 100 m.
RoundShots ==
  {MkShot("TEE", Num(200, 1), "FAIRWAY", Num(120, 1), 0, << >>),
   MkShot("FAIRWAY", Num(120, 1), "GREEN", Num(3, 1), 1, << >>),
   MkShot("ROUGH", Num(100, 1), "GREEN", Num(0, 1), 0, << >>),
   MkShot("ROUGH", Num(30, 1), "GREEN", Num(3, 1), 0, << >>),
   MkShot("GREEN", Num(3, 1), "GREEN", Num(0, 1), 0, <<2>>),
   MkShot("GREEN", Num(120, 1), "GREEN", Num(3, 1), 0, << >>)}

ZeroTotals ==
  [OTT |-> Zero, APP |-> Zero, ARG |-> Zero, PUTT |-> Zero, TOTAL |-> Zero]

\* Variant of the loop of sumTotals that leaves the loop at an invalid shot.
RECURSIVE sumTotalsLoop_stopsAtInvalid(_, _, _)
sumTotalsLoop_stopsAtInvalid(shots, i, base) ==
  IF i > Len(shots) THEN base
  ELSE LET r == calculateStrokesGained(shots[i])
       IN  IF ~r.isValid \/ r.sg = Null
           THEN base
           ELSE sumTotalsLoop_stopsAtInvalid(shots, i + 1,
                  [base EXCEPT ![r.category] = Add(@, r.sg),
                               !.TOTAL = Add(@, r.sg)])

\* The for loop of sumTotals from shot i on.
RECURSIVE sumTotalsLoop(_, _, _)
sumTotalsLoop(shots, i, base) ==
  IF i > Len(shots) THEN base
  ELSE LET r == calculateStrokesGained(shots[i])
       IN  IF ~r.isValid \/ r.sg = Null
           THEN sumTotalsLoop(shots, i + 1, base)
           ELSE sumTotalsLoop(shots, i + 1,
                  [base EXCEPT ![r.category] = Add(@, r.sg),
                               !.TOTAL = Add(@, r.sg)])

sumTotals(shots) == sumTotalsLoop(shots, 1, ZeroTotals)

\* sg ?? 0
OrZero(sg) == IF sg = Null THEN Zero ELSE sg

\* The for loop of SummaryPage.totals from shot i on.
RECURSIVE totalsLoop(_, _, _)
totalsLoop(shots, i, base) ==
  IF i > Len(shots) THEN base
  ELSE LET r == calculateStrokesGained(shots[i])
       IN  IF ~r.isValid
           THEN totalsLoop(shots, i + 1, base)
           ELSE totalsLoop(shots, i + 1,
                  [base EXCEPT ![r.category] = Add(@, OrZero(r.sg)),
                               !.TOTAL = Add(@, OrZero(r.sg))])

totalsOf(shots) == totalsLoop(shots, 1, ZeroTotals)

totals == totalsOf(round)

\* Variant of hasInvalidBaseline that asks for every shot to be invalid.
hasInvalidBaseline_every ==
  /\ round # << >>
  /\ \A i \in 1 .. Len(round) : ~calculateStrokesGained(round[i]).isValid

hasInvalidBaseline ==
  \E i \in 1 .. Len(round) : ~calculateStrokesGained(round[i]).isValid

\* The buckets of keyInsight, in the order of the array.
BucketKeys == <<"long", "mid", "short", "putting">>

ZeroBuckets == [b \in {"long", "mid", "short", "putting"} |-> Zero]

\* Variant of bucketOf with the 100 m and 200 m boundaries on the lower
\* bucket's side.
bucketOf_strict(s) ==
  IF s.startLie = "GREEN" THEN "putting"
  ELSE IF Greater(s.startDistance, Num(200, 1)) THEN "long"
  ELSE IF Greater(s.startDistance, Num(100, 1)) THEN "mid"
  ELSE "short"

\* The bucket keyInsight adds a valid shot to.
bucketOf(s) ==
  IF s.startLie = "GREEN" THEN "putting"
  ELSE IF GreaterEq(s.startDistance, Num(200, 1)) THEN "long"
  ELSE IF GreaterEq(s.startDistance, Num(100, 1)) THEN "mid"
  ELSE "short"

\* The first for loop of keyInsight from shot i on.
RECURSIVE bucketsLoop(_, _, _)
bucketsLoop(shots, i, buckets) ==
  IF i > Len(shots) THEN buckets
  ELSE LET r == calculateStrokesGained(shots[i])
       IN  IF ~r.isValid \/ r.sg = Null
           THEN bucketsLoop(shots, i + 1, buckets)
           ELSE bucketsLoop(shots, i + 1,
                  [buckets EXCEPT ![bucketOf(shots[i])] = Add(@, r.sg)])

\* The second for loop of keyInsight from bucket j on: the key of worst.
RECURSIVE worstLoop(_, _, _)
worstLoop(buckets, j, worst) ==
  IF j > Len(BucketKeys) THEN worst
  ELSE IF ~LessEq(buckets[worst], buckets[BucketKeys[j]])
       THEN worstLoop(buckets, j + 1, BucketKeys[j])
       ELSE worstLoop(buckets, j + 1, worst)

insightMessage(key) ==
  CASE key = "putting" -> "Putting cost you the most strokes."
    [] key = "short"   -> "You lost most strokes inside 100m."
    [] key = "mid"     -> "Mid-range approach play hurt the most."
    [] key = "long"    -> "Long game cost you the round."
    [] OTHER           -> "The biggest leak is in your approach play."

\* keyInsight with, besides message and value, the bucket totals and the
\* key of the bucket reported.
keyInsight ==
  LET buckets == bucketsLoop(round, 1, ZeroBuckets)
      worst == worstLoop(buckets, 1, BucketKeys[1])
  IN  [buckets |-> buckets, key |-> worst,
       message |-> insightMessage(worst), value |-> buckets[worst]]

\* storage addShot followed by the page loading the round again.
SummaryAddShot ==
  /\ Len(round) < MaxShots
  /\ \E s \in RoundShots : round' = Append(round, s)
  /\ UNCHANGED <<emptied, fringeOwn, callVars, rounds, filter, capture, storage, sessions>>

\* storage undoLastShot followed by the page loading the round again.
SummaryUndoLastShot ==
  /\ round # << >>
  /\ round' = SubSeq(round, 1, Len(round) - 1)
  /\ UNCHANGED <<emptied, fringeOwn, callVars, rounds, filter, capture, storage, sessions>>

NextSummary ==
  \/ SummaryAddShot
  \/ SummaryUndoLastShot

SpecSummary == InitTwice /\ [][NextSummary]_vars

(***************************************************************************)
(* Properties of the summary page                                          *)
(***************************************************************************)
ValidShot(s) == Valid(calculateStrokesGained(s))

\* The positions of the valid shots of a sequence of shots.
ValidIn(shots) == {i \in 1 .. Len(shots) : ValidShot(shots[i])}

\* The sum of sg over the shots at the positions I.
RECURSIVE SumSgOver(_, _)
SumSgOver(shots, I) ==
  IF I = {} THEN Zero
  ELSE LET i == CHOOSE j \in I : TRUE
       IN  Add(calculateStrokesGained(shots[i]).sg, SumSgOver(shots, I \ {i}))

\* Each category sum is the sum over the valid shots of the category, TOTAL
\* the sum over all valid shots and so the sum of the four.
SumsAreOverValidShots(t, shots) ==
  /\ \A c \in Categories :
       t[c] = SumSgOver(shots, {i \in ValidIn(shots) :
                                  categorizeShot(shots[i]) = c})
  /\ t.TOTAL = SumSgOver(shots, ValidIn(shots))
  /\ t.TOTAL = Add(Add(Add(t.OTT, t.APP), t.ARG), t.PUTT)

InsightBucket(s) ==
  IF s.startLie = "GREEN" THEN "putting"
  ELSE IF Greater(Num(100, 1), s.startDistance) THEN "short"
  ELSE IF Greater(Num(200, 1), s.startDistance) THEN "mid"
  ELSE "long"

\* C17: each bucket total of the key insight is the sum of sg over the valid
\* shots of that bucket, and the bucket reported has the least of the four
\* totals.
C17_KeyInsightWorstBucket ==
  /\ \A b \in DOMAIN ZeroBuckets :
       /\ keyInsight.buckets[b] =
            SumSgOver(round, {i \in ValidIn(round) :
                                InsightBucket(round[i]) = b})
       /\ LessEq(keyInsight.value, keyInsight.buckets[b])
  /\ keyInsight.value = keyInsight.buckets[keyInsight.key]

\* A round with a start at exactly 100 m, a start on the GREEN beyond 100 m
\* and an invalid shot, whose least bucket is not the first of the array.
C17_Witness ==
  /\ \E i \in ValidIn(round) :
       round[i].startLie # "GREEN" /\ round[i].startDistance = Num(100, 1)
  /\ \E i \in ValidIn(round) :
       round[i].startLie = "GREEN" /\ round[i].startDistance = Num(120, 1)
  /\ \E i \in 1 .. Len(round) : ~ValidShot(round[i])
  /\ keyInsight.key # "long"
  /\ Greater(Zero, keyInsight.value)

\* C18: the baseline-incomplete flag is set exactly when some shot of the
\* round is invalid, and the totals are then still the sums over the valid
\* shots.
C18_FlagIffInvalidShot ==
  /\ hasInvalidBaseline
       <=> \E i \in 1 .. Len(round) : Invalid(calculateStrokesGained(round[i]))
  /\ hasInvalidBaseline => SumsAreOverValidShots(totals, round)

\* A round flagged for one invalid shot, with valid shots that sum to a
\* total other than 0.
C18_Witness ==
  /\ hasInvalidBaseline
  /\ Cardinality(ValidIn(round)) = 2
  /\ totals.TOTAL # Zero

(***************************************************************************)
(* Dashboard page (pages/dashboard.tsx): the stored rounds and the filter  *)
(* are its state; roundsWithTotals, sortedNewest, filteredRounds,          *)
(* aggregate and trend are recomputed from them.                           *)
(***************************************************************************)
MaxRounds == 6   \* stored rounds

FILTERS == <<"5", "10", "20", "All">>

\* The rounds stored: a round that gains strokes, created at time 1 or 2,
\* and a round of two shots that loses strokes, created at time 2.
DashboardRounds ==
  LET gains == <<MkShot("ROUGH", Num(100, 1), "GREEN", Num(0, 1), 0, << >>)>>
      loses == <<MkShot("GREEN", Num(120, 1), "GREEN", Num(3, 1), 0, << >>),
                 MkShot("GREEN", Num(3, 1), "GREEN", Num(0, 1), 0, <<2>>)>>
  IN  {[createdAt |-> 1, shots |-> gains],
       [createdAt |-> 2, shots |-> gains],
       [createdAt |-> 2, shots |-> loses]}

roundsWithTotals ==
  [i \in 1 .. Len(rounds) |->
     [round |-> rounds[i], totals |-> sumTotals(rounds[i].shots)]]

\* Array.prototype.sort (stable) of items by createdAt, ascending for
\* dir = 1 (aTime - bTime) and descending for dir = -1 (bTime - aTime): the
\* items from i on are inserted, each behind the items that do not compare
\* greater.
RECURSIVE sortLoop(_, _, _, _)
sortLoop(items, i, acc, dir) ==
  IF i > Len(items) THEN acc
  ELSE LET x == items[i]
           before == {j \in 1 .. Len(acc) :
                        \A k \in 1 .. j :
                          dir * (acc[k].round.createdAt - x.round.createdAt) <= 0}
           n == Cardinality(before)
       IN  sortLoop(items, i + 1,
                    SubSeq(acc, 1, n) \o <<x>> \o SubSeq(acc, n + 1, Len(acc)),
                    dir)

sortedNewest == sortLoop(roundsWithTotals, 1, << >>, -1)

filteredRounds ==
  LET sorted == sortedNewest
  IN  IF filter = "All" THEN sorted
      ELSE LET n == CASE filter = "5" -> 5 [] filter = "10" -> 10
                      [] filter = "20" -> 20
           IN  SubSeq(sorted, 1, IF n < Len(sorted) THEN n ELSE Len(sorted))

\* base after the first n rounds of the for loop of aggregate.
RECURSIVE aggregateLoop(_, _)
aggregateLoop(items, n) ==
  IF n = 0 THEN ZeroTotals
  ELSE LET base == aggregateLoop(items, n - 1)
           item == items[n]
       IN  [OTT   |-> Add(base.OTT, item.totals.OTT),
            APP   |-> Add(base.APP, item.totals.APP),
            ARG   |-> Add(base.ARG, item.totals.ARG),
            PUTT  |-> Add(base.PUTT, item.totals.PUTT),
            TOTAL |-> Add(base.TOTAL, item.totals.TOTAL)]

\* Math.max(...totals) and Math.min(...totals) of a non-empty list.
RECURSIVE MathMax(_)
MathMax(xs) ==
  IF Len(xs) = 1 THEN xs[1]
  ELSE LET m == MathMax(Tail(xs))
       IN  IF LessEq(m, xs[1]) THEN xs[1] ELSE m

RECURSIVE MathMin(_)
MathMin(xs) ==
  IF Len(xs) = 1 THEN xs[1]
  ELSE LET m == MathMin(Tail(xs))
       IN  IF LessEq(xs[1], m) THEN xs[1] ELSE m

\* Variant of aggregate that divides by the number of stored rounds.
aggregate_allRounds ==
  LET items == filteredRounds IN
  IF Len(items) = 0
  THEN [avg |-> ZeroTotals, best |-> Zero, worst |-> Zero]
  ELSE LET base == aggregateLoop(items, Len(items))
           count == Len(rounds)
           roundTotals == [i \in 1 .. Len(items) |-> items[i].totals.TOTAL]
       IN  [avg   |-> [OTT   |-> Div(base.OTT, Num(count, 1)),
                      APP   |-> Div(base.APP, Num(count, 1)),
                      ARG   |-> Div(base.ARG, Num(count, 1)),
                      PUTT  |-> Div(base.PUTT, Num(count, 1)),
                      TOTAL |-> Div(base.TOTAL, Num(count, 1))],
            best  |-> MathMax(roundTotals),
            worst |-> MathMin(roundTotals)]

aggregate ==
  LET items == filteredRounds IN
  IF Len(items) = 0
  THEN [avg |-> ZeroTotals, best |-> Zero, worst |-> Zero]
  ELSE LET base == aggregateLoop(items, Len(items))
           count == Len(items)
           roundTotals == [i \in 1 .. count |-> items[i].totals.TOTAL]
       IN  [avg   |-> [OTT   |-> Div(base.OTT, Num(count, 1)),
                      APP   |-> Div(base.APP, Num(count, 1)),
                      ARG   |-> Div(base.ARG, Num(count, 1)),
                      PUTT  |-> Div(base.PUTT, Num(count, 1)),
                      TOTAL |-> Div(base.TOTAL, Num(count, 1))],
            best  |-> MathMax(roundTotals),
            worst |-> MathMin(roundTotals)]

\* rows after the forEach of trend from item idx on (idx is 1-based here).
RECURSIVE trendLoop(_, _, _, _)
trendLoop(oldestFirst, idx, running, rows) ==
  IF idx > Len(oldestFirst) THEN rows
  ELSE LET r == Add(running, oldestFirst[idx].totals.TOTAL)
       IN  trendLoop(oldestFirst, idx + 1, r,
             Append(rows, [date       |-> oldestFirst[idx].round.createdAt,
                           total      |-> oldestFirst[idx].totals.TOTAL,
                           runningAvg |-> Div(r, Num(idx, 1))]))

\* Variant of trend that keeps the order of filteredRounds.
trend_newestFirst == trendLoop(filteredRounds, 1, Zero, << >>)

trend ==
  LET oldestFirst == sortLoop(filteredRounds, 1, << >>, 1)
  IN  trendLoop(oldestFirst, 1, Zero, << >>)

\* saveRound of a round with a new id, and the page loading the rounds.
DashboardSaveRound ==
  /\ Len(rounds) < MaxRounds
  /\ \E r \in DashboardRounds : rounds' = <<r>> \o rounds
  /\ UNCHANGED <<emptied, fringeOwn, callVars, round, filter, capture, storage, sessions>>

\* handleDelete of the round at position i.
DashboardDelete ==
  /\ \E i \in 1 .. Len(rounds) :
       rounds' = SubSeq(rounds, 1, i - 1) \o SubSeq(rounds, i + 1, Len(rounds))
  /\ UNCHANGED <<emptied, fringeOwn, callVars, round, filter, capture, storage, sessions>>

\* handleClearAll, confirmed.
DashboardClearAll ==
  /\ rounds # << >>
  /\ rounds' = << >>
  /\ UNCHANGED <<emptied, fringeOwn, callVars, round, filter, capture, storage, sessions>>

\* A click on one of the filter buttons.
DashboardSetFilter ==
  /\ \E f \in {FILTERS[i] : i \in DOMAIN FILTERS} :
       /\ f # filter
       /\ filter' = f
  /\ UNCHANGED <<emptied, fringeOwn, callVars, round, rounds, capture, storage, sessions>>

InitDashboard ==
  /\ Init
  /\ IsShipped

NextDashboard ==
  \/ DashboardSaveRound
  \/ DashboardDelete
  \/ DashboardClearAll
  \/ DashboardSetFilter

SpecDashboard == InitDashboard /\ [][NextDashboard]_vars

(***************************************************************************)
(* Properties of the dashboard                                             *)
(***************************************************************************)
\* The sum of the totals of category c over the items at the positions I.
RECURSIVE SumTotalsOver(_, _, _)
SumTotalsOver(items, c, I) ==
  IF I = {} THEN Zero
  ELSE LET i == CHOOSE j \in I : TRUE
       IN  Add(items[i].totals[c], SumTotalsOver(items, c, I \ {i}))

\* C15: over the n filtered rounds each average is the sum of the round
\* totals of the category divided by n, best is the greatest and worst the
\* least round TOTAL; for n = 0 averages, best and worst are all 0.
C15_AggregateOverRounds ==
  LET fr == filteredRounds
      ag == aggregate
      n == Len(fr)
  IN  /\ n = 0 => ag = [avg |-> ZeroTotals, best |-> Zero, worst |-> Zero]
      /\ n > 0 =>
           /\ DOMAIN ag.avg = DOMAIN ZeroTotals
           /\ \A c \in DOMAIN ZeroTotals :
                ag.avg[c] =
                  Div(SumTotalsOver(fr, c, 1 .. n), Num(n, 1))
           /\ \E i \in 1 .. n : ag.best = fr[i].totals.TOTAL
           /\ \A i \in 1 .. n : LessEq(fr[i].totals.TOTAL, ag.best)
           /\ \E i \in 1 .. n : ag.worst = fr[i].totals.TOTAL
           /\ \A i \in 1 .. n : LessEq(ag.worst, fr[i].totals.TOTAL)

\* Six stored rounds cut to the five newest, with rounds of two shots and
\* different totals among them.
C15_Witness ==
  /\ Len(rounds) = 6
  /\ filter = "5"
  /\ Len(filteredRounds) = 5
  /\ aggregate.best # aggregate.worst
  /\ aggregate.avg.TOTAL # aggregate.best
  /\ aggregate.avg.TOTAL # aggregate.worst
  /\ \E i \in 1 .. 5 : Len(filteredRounds[i].round.shots) = 2

\* The number of items of a list created at time c.
CreatedAt(items, c) ==
  Cardinality({i \in 1 .. Len(items) : items[i].round.createdAt = c})

MaxHole == 2           \* holes of the round on the page
MaxCaptureShots == 2   \* shots the page may store

\* round.targetHoles ?? 18: the round on the page is a short one, so that its
\* final hole is reached.
targetHoles == MaxHole

TypedStart == {<< >>, <<150>>}
TypedEnd   == {<< >>, <<0>>, <<5>>}
EndLieChoices == {"FAIRWAY", "GREEN"}
PuttChoices == {2}
\* No branch of the page reads penaltyStrokes: the stored shot copies it.
PenaltyChoices == {0}

roundEnded(c) == c.endedAt

MinInt(a, b) == IF a <= b THEN a ELSE b

\* String(distance) of a whole distance.
DistanceText(q) == <<q.n>>

clampDistanceText(value, allowDecimal) ==
  IF value = << >> THEN << >> ELSE <<MinInt(600, value[1])>>

parseDistance(value, allowDecimal) ==
  IF value = << >> THEN Zero ELSE Num(MinInt(600, value[1]), 1)

puttingMode(c) == c.startLie = "GREEN"

ShotsOfHole(c, h) == SelectSeq(c.shots, LAMBDA s : s.holeNumber = h)

holeShots(c) == ShotsOfHole(c, c.holeNumber)

\* The last element of hs after a stable sort by shotNumber.
LastByShotNumber(hs) ==
  LET top  == CHOOSE i \in 1 .. Len(hs) :
                \A j \in 1 .. Len(hs) : hs[j].shotNumber <= hs[i].shotNumber
      last == CHOOSE i \in 1 .. Len(hs) :
                /\ hs[i].shotNumber = hs[top].shotNumber
                /\ \A j \in 1 .. Len(hs) :
                     hs[j].shotNumber = hs[top].shotNumber => j <= i
  IN  hs[last]

\* nextShotNumber that counts the shots of the whole round.
nextShotNumber_overall(c) == Len(c.shots) + 1

nextShotNumber(c) == Len(holeShots(c)) + 1

\* isHoleComplete that takes a hole for complete only once it was putted out.
isHoleComplete_putted(c) ==
  \E i \in 1 .. Len(holeShots(c)) :
    /\ holeShots(c)[i].endLie = "GREEN"
    /\ holeShots(c)[i].endDistance = Zero
    /\ HasPutts(holeShots(c)[i])

isHoleComplete(c) ==
  \E i \in 1 .. Len(holeShots(c)) :
    /\ holeShots(c)[i].endLie = "GREEN"
    /\ holeShots(c)[i].endDistance = Zero

startDistanceValue(c) == parseDistance(c.startDistance, c.startLie = "GREEN")

endDistanceValue(c) == parseDistance(c.endDistance, c.endLieSelection = "GREEN")

lastShotInHole(c) == holeShots(c)[Len(holeShots(c))]

currentStartDistance(c) ==
  IF Len(holeShots(c)) > 0 THEN lastShotInHole(c).endDistance
  ELSE startDistanceValue(c)

puttingStartDistance(c) ==
  IF c.endDistance # << >> THEN endDistanceValue(c)
  ELSE IF Len(holeShots(c)) > 0 THEN lastShotInHole(c).endDistance
  ELSE Zero

endLieForShot(c) ==
  IF puttingMode(c) THEN "GREEN"
  ELSE IF c.endLieSelection = "null" THEN "FAIRWAY"
  ELSE c.endLieSelection

endDistanceForShot(c) == IF puttingMode(c) THEN Zero ELSE endDistanceValue(c)

previewShot(c) ==
  [holeNumber     |-> c.holeNumber,
   shotNumber     |-> nextShotNumber(c),
   startLie       |-> IF Len(holeShots(c)) = 0 THEN "TEE" ELSE c.startLie,
   startDistance  |-> IF Len(holeShots(c)) = 0 THEN startDistanceValue(c)
                      ELSE IF puttingMode(c) THEN puttingStartDistance(c)
                      ELSE currentStartDistance(c),
   endLie         |-> endLieForShot(c),
   endDistance    |-> endDistanceForShot(c),
   penaltyStrokes |-> c.penaltyStrokes,
   putts          |-> IF puttingMode(c) /\ c.puttsCount # 0
                      THEN <<c.puttsCount>> ELSE << >>]

canSave(c) ==
  /\ Len(holeShots(c)) = 0 => c.startDistance # << >>
  /\ IF puttingMode(c) THEN c.puttsCount # 0
     ELSE c.endDistance # << >> /\ c.endLieSelection # "null"

isFinalHole(c) == c.holeNumber >= targetHoles

finalHoleComplete(c) == isFinalHole(c) /\ isHoleComplete(c)

isHoleFinished(shots) ==
  \E i \in 1 .. Len(shots) :
    shots[i].endLie = "GREEN" /\ shots[i].endDistance = Zero

\* The first hole without shots or without a holing shot, else the final hole.
getResumeHole(c) ==
  LET open == {hole \in 1 .. targetHoles :
                 \/ Len(ShotsOfHole(c, hole)) = 0
                 \/ ~isHoleFinished(ShotsOfHole(c, hole))}
  IN  IF open = {} THEN targetHoles
      ELSE CHOOSE hole \in open : \A other \in open : hole <= other

\* useEffect on [puttingMode]: before is the state of the previous render.
puttingModeEffect(before, c) ==
  IF puttingMode(c) # puttingMode(before) /\ puttingMode(c)
  THEN [c EXCEPT !.endLieSelection = "null"]
  ELSE c

\* useEffect on [holeNumber, round?.id]: the body of the effect.
holeChangeEffect(c) ==
  LET here == ShotsOfHole(c, c.holeNumber)
      prev == IF c.holeNumber > 1 THEN ShotsOfHole(c, c.holeNumber - 1)
              ELSE << >>
      from == IF Len(here) > 0
              THEN [lie  |-> LastByShotNumber(here).endLie,
                    text |-> DistanceText(LastByShotNumber(here).endDistance)]
              ELSE IF Len(prev) > 0 /\ LastByShotNumber(prev).endDistance.n > 0
              THEN [lie  |-> LastByShotNumber(prev).endLie,
                    text |-> DistanceText(LastByShotNumber(prev).endDistance)]
              ELSE [lie |-> "TEE", text |-> << >>]
  IN  [c EXCEPT !.startLie = from.lie, !.startDistance = from.text,
                !.endDistance = << >>, !.endLieSelection = "null",
                !.puttsCount = 0, !.holed = FALSE]

\* The state the page settles in after a handler took it from before to c:
\* the effects whose dependencies changed run in the order of their
\* definition, and again after the re-render they cause.
afterEffects(before, c) ==
  LET a == puttingModeEffect(before, c)
      b == IF c.holeNumber # before.holeNumber THEN holeChangeEffect(a) ELSE a
  IN  puttingModeEffect(c, b)

\* The page as it mounts on the stored round: useState defaults, then the
\* effects on [round?.id] and on [holeNumber, round?.id].
mount(c) ==
  holeChangeEffect([NoCapture EXCEPT !.shots = c.shots,
                                     !.endedAt = c.endedAt,
                                     !.holeNumber = getResumeHole(c)])

\* handleSaveShot that stores into an ended round.
handleSaveShot_endedToo(c) ==
  LET p  == previewShot(c)
      c1 == [c EXCEPT !.shots = Append(@, p), !.endDistance = << >>]
  IN  IF isHoleComplete(c) THEN c
      ELSE IF ~canSave(c) THEN c
      ELSE IF p.endDistance = Zero /\ isFinalHole(c)
      THEN c1
      ELSE IF p.endDistance = Zero
      THEN [c1 EXCEPT !.holeNumber = MinInt(targetHoles, @ + 1),
                      !.startLie = "TEE", !.endLieSelection = "null",
                      !.penaltyStrokes = 0, !.holed = FALSE, !.puttsCount = 0]
      ELSE [c1 EXCEPT !.startLie = p.endLie, !.endLieSelection = "null",
                      !.penaltyStrokes = 0, !.holed = FALSE, !.puttsCount = 0]

handleSaveShot(c) ==
  LET p  == previewShot(c)
      c1 == [c EXCEPT !.shots = Append(@, p), !.endDistance = << >>]
  IN  IF roundEnded(c) THEN c
      ELSE IF isHoleComplete(c) THEN c
      ELSE IF ~canSave(c) THEN c
      ELSE IF p.endDistance = Zero /\ isFinalHole(c)
      THEN c1
      ELSE IF p.endDistance = Zero
      THEN [c1 EXCEPT !.holeNumber = MinInt(targetHoles, @ + 1),
                      !.startLie = "TEE", !.endLieSelection = "null",
                      !.penaltyStrokes = 0, !.holed = FALSE, !.puttsCount = 0]
      ELSE [c1 EXCEPT !.startLie = p.endLie, !.endLieSelection = "null",
                      !.penaltyStrokes = 0, !.holed = FALSE, !.puttsCount = 0]

\* handleSavePutt, which no control of the page calls.
handleSavePutt(c, count) ==
  LET capped == MinInt(10, IF count >= 1 THEN count ELSE 1)
      made  == [holeNumber     |-> c.holeNumber,
                shotNumber     |-> nextShotNumber(c),
                startLie       |-> "GREEN",
                startDistance  |-> currentStartDistance(c),
                endLie         |-> "GREEN",
                endDistance    |-> Zero,
                penaltyStrokes |-> c.penaltyStrokes,
                putts          |-> <<capped>>]
  IN  IF roundEnded(c) THEN c
      ELSE IF isHoleComplete(c) THEN c
      ELSE [c EXCEPT !.shots = Append(@, made),
                     !.holeNumber = MinInt(targetHoles, @ + 1),
                     !.startLie = "TEE", !.startDistance = << >>,
                     !.endLieSelection = "null", !.endDistance = << >>,
                     !.penaltyStrokes = 0, !.holed = FALSE]

handleUndo(c) ==
  IF Len(c.shots) = 0 THEN c
  ELSE [c EXCEPT !.shots = SubSeq(@, 1, Len(@) - 1)]

\* endRound of lib/storage, imported by the page: it stamps endedAt on the
\* stored round and returns the round.
endRound(c) == [c EXCEPT !.endedAt = TRUE]

confirmEndRound(c) == endRound(c)

CaptureStep(next) ==
  /\ capture' = afterEffects(capture, next)
  /\ UNCHANGED <<emptied, fringeOwn, callVars, round, rounds, filter, storage, sessions>>

\* The start distance input, shown while the hole has no shot.
TypeStartDistance ==
  /\ ~roundEnded(capture)
  /\ Len(holeShots(capture)) = 0
  /\ \E v \in TypedStart :
       CaptureStep([capture EXCEPT !.startDistance =
                      clampDistanceText(v, capture.startLie = "GREEN")])

\* The TO lie pills, shown outside putting mode.
SelectEndLie ==
  /\ ~roundEnded(capture)
  /\ ~puttingMode(capture)
  /\ \E value \in EndLieChoices :
       CaptureStep([capture EXCEPT !.endLieSelection = value])

\* The end distance input, shown outside putting mode.
TypeEndDistance ==
  /\ ~roundEnded(capture)
  /\ ~puttingMode(capture)
  /\ \E v \in TypedEnd :
       CaptureStep([capture EXCEPT !.endDistance =
                      clampDistanceText(v, capture.endLieSelection = "GREEN")])

\* The Holed pill, shown outside putting mode.
ToggleHoled ==
  /\ ~roundEnded(capture)
  /\ ~puttingMode(capture)
  /\ CaptureStep(IF ~capture.holed
                 THEN [capture EXCEPT !.holed = TRUE,
                                      !.endLieSelection = "GREEN",
                                      !.endDistance = <<0>>]
                 ELSE [capture EXCEPT !.holed = FALSE])

\* The putt count pills, shown in putting mode.
SelectPutts ==
  /\ ~roundEnded(capture)
  /\ puttingMode(capture)
  /\ \E count \in PuttChoices :
       CaptureStep([capture EXCEPT !.puttsCount = count,
                                   !.endLieSelection = "GREEN",
                                   !.holed = TRUE])

\* The penalty pills.
SelectPenalty ==
  /\ ~roundEnded(capture)
  /\ \E n \in PenaltyChoices :
       CaptureStep([capture EXCEPT !.penaltyStrokes = n])

\* The hole stepper, minus.
PrevHole ==
  /\ ~roundEnded(capture)
  /\ CaptureStep([capture EXCEPT !.holeNumber = IF @ - 1 >= 1 THEN @ - 1 ELSE 1])

\* The hole stepper, plus, and the Next hole button of a complete hole.
NextHole ==
  /\ ~roundEnded(capture) \/ isHoleComplete(capture)
  /\ CaptureStep([capture EXCEPT !.holeNumber = MinInt(targetHoles, @ + 1)])

\* The Save shot button and the form's submit.
SaveShot ==
  /\ Len(capture.shots) < MaxCaptureShots
  /\ CaptureStep(handleSaveShot(capture))

\* handleUndo, wired to the Undo buttons in the first variant of the page
\* (lines 606-656), which an ended round does not show.
Undo ==
  /\ ~roundEnded(capture)
  /\ Len(capture.shots) > 0
  /\ CaptureStep(handleUndo(capture))

\* View summary in the end-round dialog.  The dialog opens on End round, on
\* Finish round and on a holing save on the final hole (handleEndRound, lines
\* 1286-1288 and 1247-1251); an ended round shows none of these.  The handler
\* leaves for the summary page: the round is next seen by a page that mounts.
ConfirmEndRound ==
  /\ ~roundEnded(capture)
  /\ capture' = mount(confirmEndRound(capture))
  /\ UNCHANGED <<emptied, fringeOwn, callVars, round, rounds, filter, storage, sessions>>

\* The page is opened again on the round.
Mount ==
  /\ capture' = mount(capture)
  /\ UNCHANGED <<emptied, fringeOwn, callVars, round, rounds, filter, storage, sessions>>

InitCapture == Init /\ IsShipped

NextCapture ==
  \/ TypeStartDistance
  \/ SelectEndLie
  \/ TypeEndDistance
  \/ ToggleHoled
  \/ SelectPutts
  \/ SelectPenalty
  \/ PrevHole
  \/ NextHole
  \/ SaveShot
  \/ Undo
  \/ ConfirmEndRound
  \/ Mount

SpecCapture == InitCapture /\ [][NextCapture]_vars

\* C19: every shot the capture workflow has stored satisfies: if putts is
\* present then startLie = GREEN.
C19_PuttsOnlyFromGreen ==
  \A i \in 1 .. Len(capture.shots) :
    HasPutts(capture.shots[i]) => capture.shots[i].startLie = "GREEN"

\* C22: once the round on the page is ended, neither save handler adds a
\* shot to it: with the round as confirmEndRound leaves it, and in every
\* state of an ended round, handleSaveShot and handleSavePutt return the
\* shots unchanged.
C22_EndedRoundGetsNoShot ==
  LET c == IF roundEnded(capture) THEN capture ELSE confirmEndRound(capture)
  IN  /\ handleSaveShot(c).shots = c.shots
      /\ \A count \in PuttChoices : handleSavePutt(c, count).shots = c.shots

\* An ended round with shots is on the page, on a hole that is not complete.
C22_Witness ==
  /\ roundEnded(capture)
  /\ ~isHoleComplete(capture)
  /\ Len(capture.shots) > 0

IsHoling(s) == s.endLie = "GREEN" /\ s.endDistance = Zero

\* C24: a save that moves the page to another hole has just stored a shot
\* with endLie GREEN and endDistance 0.
C24_AdvanceOnlyAfterHoling ==
  [][(/\ Len(capture'.shots) = Len(capture.shots) + 1
      /\ capture'.holeNumber # capture.holeNumber)
     => IsHoling(capture'.shots[Len(capture'.shots)])]_vars

\* C25: in every hole of the round on the page a holing shot is the last
\* shot stored for the hole, so a hole has at most one.
C25_HolingShotIsLast ==
  \A h \in 1 .. targetHoles :
    \A i \in 1 .. Len(ShotsOfHole(capture, h)) :
      IsHoling(ShotsOfHole(capture, h)[i]) => i = Len(ShotsOfHole(capture, h))

\* A hole of two shots is holed out and the page is back on it.
C25_Witness ==
  /\ Len(holeShots(capture)) >= 2
  /\ isHoleComplete(capture)
  /\ ~roundEnded(capture)

\* C26: the shots of every hole carry the numbers 1 .. n, each once, where n
\* is the number of shots of the hole.
C26_ShotNumbersOneToN ==
  \A h \in 1 .. targetHoles :
    \A k \in 1 .. Len(ShotsOfHole(capture, h)) :
      Cardinality({i \in 1 .. Len(ShotsOfHole(capture, h)) :
                     ShotsOfHole(capture, h)[i].shotNumber = k}) = 1

\* Two holes hold a shot each.
C26_Witness ==
  /\ Len(ShotsOfHole(capture, 1)) >= 1
  /\ Len(ShotsOfHole(capture, 2)) >= 1

\* ---------------------------------------------------------------------------
\* Two RoundPage sessions on the same round.  A session reads the stored
\* round when it mounts and after its own saves and undos (setRound of what
\* addShot and undoLastShot return); nothing tells it of the other's.  The
\* sessions use the start distance, the end distance, the Holed pill, Save
\* and Undo.
\* ---------------------------------------------------------------------------

\* Session t goes from its state to next, with effects, and the stored round
\* becomes shots.
SessionStep(t, next, shots) ==
  /\ sessions' = [stored |-> shots,
                  page   |-> [sessions.page EXCEPT
                                ![t] = afterEffects(sessions.page[t], next)]]
  /\ UNCHANGED <<emptied, fringeOwn, callVars, round, rounds, filter,
                 capture, storage>>

TabTypeStartDistance ==
  \E t \in Tabs :
    /\ Len(holeShots(sessions.page[t])) = 0
    /\ \E v \in TypedStart :
         SessionStep(t, [sessions.page[t] EXCEPT !.startDistance =
                           clampDistanceText(v, sessions.page[t].startLie = "GREEN")],
                     sessions.stored)

TabTypeEndDistance ==
  \E t \in Tabs :
    /\ ~puttingMode(sessions.page[t])
    /\ \E v \in TypedEnd :
         SessionStep(t, [sessions.page[t] EXCEPT !.endDistance =
                           clampDistanceText(v, sessions.page[t].endLieSelection = "GREEN")],
                     sessions.stored)

TabToggleHoled ==
  \E t \in Tabs :
    /\ ~puttingMode(sessions.page[t])
    /\ SessionStep(t, IF ~sessions.page[t].holed
                      THEN [sessions.page[t] EXCEPT !.holed = TRUE,
                                                   !.endLieSelection = "GREEN",
                                                   !.endDistance = <<0>>]
                      ELSE [sessions.page[t] EXCEPT !.holed = FALSE],
                   sessions.stored)

\* handleSaveShot in session t: the guards and the previewed shot come from
\* the round the session holds, addShot appends to the stored round and the
\* session takes the round addShot returns.
TabSaveShot ==
  \E t \in Tabs :
    LET c     == sessions.page[t]
        after == Append(sessions.stored, previewShot(c))
    IN  /\ Len(sessions.stored) < MaxCaptureShots
        /\ handleSaveShot(c).shots # c.shots
        /\ SessionStep(t, [handleSaveShot(c) EXCEPT !.shots = after], after)

\* handleUndo in session t: undoLastShot drops the last shot of the stored
\* round and the session takes the round it returns.
TabUndo ==
  \E t \in Tabs :
    LET after == IF Len(sessions.stored) = 0 THEN sessions.stored
                 ELSE SubSeq(sessions.stored, 1, Len(sessions.stored) - 1)
    IN  SessionStep(t, [sessions.page[t] EXCEPT !.shots = after], after)

\* Session t is opened again and reads the stored round.
TabMount ==
  \E t \in Tabs :
    /\ sessions' = [sessions EXCEPT
                      !.page[t] = mount([sessions.page[t] EXCEPT
                                           !.shots = sessions.stored])]
    /\ UNCHANGED <<emptied, fringeOwn, callVars, round, rounds, filter,
                   capture, storage>>

InitSessions == Init /\ IsShipped

NextSessions ==
  \/ TabTypeStartDistance
  \/ TabTypeEndDistance
  \/ TabToggleHoled
  \/ TabSaveShot
  \/ TabUndo
  \/ TabMount

SpecSessions == InitSessions /\ [][NextSessions]_vars

\* C27: with two sessions saving and undoing on the same round, the shots of
\* a hole in the stored round carry distinct shot numbers and none of them
\* was stored after a holing shot of the hole.
C27_TwoSessionsKeepHolesSound ==
  \A i, j \in 1 .. Len(sessions.stored) :
    (i < j /\ sessions.stored[i].holeNumber = sessions.stored[j].holeNumber)
    => /\ sessions.stored[i].shotNumber # sessions.stored[j].shotNumber
       /\ ~IsHoling(sessions.stored[i])

\* ---------------------------------------------------------------------------
\* storage.ts (src/lib/expectedStrokes.ts, lines 236-449): the rounds kept in
\* localStorage.  A stored round is [id, createdAt, shots].
\* ---------------------------------------------------------------------------

MaxStoredRounds == 2   \* rounds localStorage may hold

StorageIds == 1 .. MaxStoredRounds

StorageShots ==
  {MkShot("FAIRWAY", Num(120, 1), "GREEN", Num(3, 1), 0, << >>),
   MkShot("GREEN", Num(3, 1), "GREEN", Num(0, 1), 0, <<2>>)}

StorageRounds ==
  {[id |-> i, createdAt |-> 1, shots |-> sh] :
     i \in StorageIds, sh \in {<< >>} \cup {<<s>> : s \in StorageShots}}

\* a ?? b with Null for a missing value.
Coalesce(a, b) == IF a = Null THEN b ELSE a

normalizeRound(r) ==
  [id        |-> r.id,
   createdAt |-> r.createdAt,
   shots     |-> [i \in 1 .. Len(r.shots) |->
                    [r.shots[i] EXCEPT
                       !.startDistance = Coalesce(@, Zero),
                       !.endDistance   = Coalesce(@, Zero)]]]

safeParse(json) == [i \in 1 .. Len(json) |-> normalizeRound(json[i])]

\* The body of the map in migrateGreenFeetIfNeeded.
convertGreen(r) ==
  [r EXCEPT !.shots =
     [i \in 1 .. Len(r.shots) |->
        [r.shots[i] EXCEPT
           !.startDistance =
              IF r.shots[i].startLie = "GREEN"
              THEN Mul(Coalesce(@, Zero), FeetPerMeter) ELSE Coalesce(@, Zero),
           !.endDistance =
              IF r.shots[i].endLie = "GREEN"
              THEN Mul(Coalesce(@, Zero), FeetPerMeter) ELSE Coalesce(@, Zero)]]]

\* The list returned, and localStorage afterwards.
migrateGreenFeetIfNeeded(st, rs) ==
  IF st.key THEN [returned |-> rs, item |-> st.item, key |-> TRUE]
  ELSE IF Len(rs) = 0 THEN [returned |-> rs, item |-> st.item, key |-> TRUE]
  ELSE LET converted == [i \in 1 .. Len(rs) |-> convertGreen(rs[i])]
       IN  [returned |-> converted, item |-> converted, key |-> TRUE]

loadRounds(st) == migrateGreenFeetIfNeeded(st, safeParse(st.item))

persistRounds(rs) == [i \in 1 .. Len(rs) |-> normalizeRound(rs[i])]

\* rounds.findIndex((r) => r.id === id), 0 for -1.
findIndex(rs, id) ==
  IF \E i \in 1 .. Len(rs) : rs[i].id = id
  THEN CHOOSE i \in 1 .. Len(rs) :
         rs[i].id = id /\ \A j \in 1 .. i - 1 : rs[j].id # id
  ELSE 0

\* What a storage operation leaves and returns: the list under
\* STORAGE_KEY, whether MIGRATION_KEY is set, the list its loadRounds
\* returned (the stored list when it does not load), and its return value
\* (defined is FALSE for undefined and for void).
Outcome(item, key, loaded, defined, value) ==
  [item |-> item, key |-> key, loaded |-> loaded, defined |-> defined,
   value |-> value]

\* An operation that loads and stores nothing else.
Loaded(ld, defined, value) ==
  Outcome(ld.item, ld.key, ld.returned, defined, value)

\* An operation that loads and then persists rs.
Persisted(ld, rs, defined, value) ==
  Outcome(persistRounds(rs), ld.key, ld.returned, defined, value)

getRoundsOn(st) ==
  LET ld == loadRounds(st)
  IN  Loaded(ld, TRUE, ld.returned)

getRoundOn(st, id) ==
  LET ld  == loadRounds(st)
      idx == findIndex(ld.returned, id)
  IN  IF idx = 0 THEN Loaded(ld, FALSE, << >>)
      ELSE Loaded(ld, TRUE, ld.returned[idx])

saveRoundOn(st, r) ==
  LET ld  == loadRounds(st)
      idx == findIndex(ld.returned, r.id)
      rs  == IF idx = 0 THEN <<normalizeRound(r)>> \o ld.returned
             ELSE [ld.returned EXCEPT ![idx] = normalizeRound(r)]
  IN  Persisted(ld, rs, FALSE, << >>)

updateRoundOn(st, r) ==
  LET ld  == loadRounds(st)
      idx == findIndex(ld.returned, r.id)
  IN  IF idx = 0 THEN Loaded(ld, FALSE, << >>)
      ELSE Persisted(ld, [ld.returned EXCEPT ![idx] = normalizeRound(r)],
                     FALSE, << >>)

addShotOn(st, id, s) ==
  LET ld  == loadRounds(st)
      idx == findIndex(ld.returned, id)
      updated == [ld.returned[idx] EXCEPT !.shots = Append(@, s)]
  IN  IF idx = 0 THEN Loaded(ld, FALSE, << >>)
      ELSE Persisted(ld, [ld.returned EXCEPT ![idx] = updated], TRUE, updated)

undoLastShotOn(st, id) ==
  LET ld  == loadRounds(st)
      idx == findIndex(ld.returned, id)
      updated == [ld.returned[idx] EXCEPT !.shots = SubSeq(@, 1, Len(@) - 1)]
  IN  IF idx = 0 THEN Loaded(ld, FALSE, << >>)
      ELSE IF Len(ld.returned[idx].shots) = 0
      THEN Loaded(ld, TRUE, ld.returned[idx])
      ELSE Persisted(ld, [ld.returned EXCEPT ![idx] = updated], TRUE, updated)

deleteRoundOn(st, id) ==
  LET ld == loadRounds(st)
  IN  Persisted(ld, SelectSeq(ld.returned, LAMBDA r : r.id # id), FALSE, << >>)

\* removeItem(STORAGE_KEY): nothing is loaded.
clearRoundsOn(st) == Outcome(<< >>, st.key, st.item, FALSE, << >>)

\* The other typeof tests of isValidShot hold for every shot of the model.
isValidShot(s) == s.startDistance # Null /\ s.endDistance # Null

\* id, createdAt and shots are present in every entry of the model.
isValidRound(r) ==
  \A i \in 1 .. Len(r.shots) : isValidShot(r.shots[i])

\* byId.set(round.id, round) on a Map kept as the list of its values in
\* insertion order.
MapSet(byId, r) ==
  IF findIndex(byId, r.id) = 0 THEN Append(byId, r)
  ELSE [byId EXCEPT ![findIndex(byId, r.id)] = r]

RECURSIVE byIdLoop(_, _, _)
byIdLoop(rs, i, byId) ==
  IF i > Len(rs) THEN byId
  ELSE byIdLoop(rs, i + 1, MapSet(byId, rs[i]))

\* json is [kind, entries]: kind "unparseable" (JSON.parse throws),
\* "nonArray", or "array" with the entries parsed.
importRoundsOn(st, json, mode) ==
  IF json.kind # "array"
  THEN LET ld == loadRounds(st) IN Loaded(ld, TRUE, ld.returned)
  ELSE LET valid == SelectSeq(json.entries, isValidRound)
           normalized == [i \in 1 .. Len(valid) |-> normalizeRound(valid[i])]
       IN  IF Len(valid) = 0
           THEN LET ld == loadRounds(st) IN Loaded(ld, TRUE, ld.returned)
           ELSE IF mode = "replace"
           THEN Outcome(persistRounds(normalized), st.key, st.item, TRUE,
                        normalized)
           ELSE LET ld     == loadRounds(st)
                    merged == byIdLoop(normalized, 1,
                                       byIdLoop(ld.returned, 1, << >>))
                IN  Persisted(ld, merged, TRUE, merged)

\* An entry that isValidRound rejects: its shot has no start distance.
InvalidEntry ==
  [id |-> 1, createdAt |-> 1,
   shots |-> <<MkShot("FAIRWAY", Null, "GREEN", Num(3, 1), 0, << >>)>>]

ImportEntries == StorageRounds \cup {InvalidEntry}

ImportLists ==
  UNION {[1 .. n -> ImportEntries] : n \in 0 .. MaxStoredRounds}

ImportInputs ==
  {[kind |-> "unparseable", entries |-> << >>],
   [kind |-> "nonArray", entries |-> << >>]}
    \cup {[kind |-> "array", entries |-> es] : es \in ImportLists}

\* localStorage after the operation name with outcome out.
Stored(name, out) ==
  [item |-> out.item, key |-> out.key, op |-> name, before |-> storage.item,
   loaded |-> out.loaded]

StorageStep(st) ==
  /\ storage' = st
  /\ UNCHANGED <<emptied, fringeOwn, callVars, round, rounds, filter, capture, sessions>>

getRounds == StorageStep(Stored("getRounds", getRoundsOn(storage)))

getRound ==
  \E id \in StorageIds :
    StorageStep(Stored("getRound", getRoundOn(storage, id)))

saveRound ==
  \E r \in StorageRounds :
    /\ Len(saveRoundOn(storage, r).item) <= MaxStoredRounds
    /\ StorageStep(Stored("saveRound", saveRoundOn(storage, r)))

updateRound ==
  \E r \in StorageRounds :
    StorageStep(Stored("updateRound", updateRoundOn(storage, r)))

addShot ==
  \E id \in StorageIds, s \in StorageShots :
    /\ \A i \in 1 .. Len(addShotOn(storage, id, s).item) :
         Len(addShotOn(storage, id, s).item[i].shots) <= MaxCaptureShots
    /\ StorageStep(Stored("addShot", addShotOn(storage, id, s)))

undoLastShot ==
  \E id \in StorageIds :
    StorageStep(Stored("undoLastShot", undoLastShotOn(storage, id)))

deleteRound ==
  \E id \in StorageIds :
    StorageStep(Stored("deleteRound", deleteRoundOn(storage, id)))

clearRounds == StorageStep(Stored("clearRounds", clearRoundsOn(storage)))

importRoundsReplace ==
  \E json \in ImportInputs :
    StorageStep(Stored("importRounds",
                       importRoundsOn(storage, json, "replace")))

importRoundsMerge ==
  \E json \in ImportInputs :
    StorageStep(Stored("importRounds", importRoundsOn(storage, json, "merge")))

InitStorage == Init /\ IsShipped

NextStorage ==
  \/ getRounds
  \/ getRound
  \/ saveRound
  \/ updateRound
  \/ addShot
  \/ undoLastShot
  \/ deleteRound
  \/ clearRounds
  \/ importRoundsReplace
  \/ importRoundsMerge

SpecStorage == InitStorage /\ [][NextStorage]_vars

\* The start and end distances of every shot of a list of rounds.
Distances(rs) ==
  [i \in 1 .. Len(rs) |->
     [j \in 1 .. Len(rs[i].shots) |->
        <<rs[i].shots[j].startDistance, rs[i].shots[j].endDistance>>]]

\* C20: the load of every storage operation returns the start and end
\* distances that were stored, and getRounds and getRound keep them stored,
\* so that a GREEN distance is multiplied by 3.28084 by the Estimator only.
C20_LoadKeepsStoredDistances ==
  /\ Distances(storage.loaded) = Distances(storage.before)
  /\ storage.op \in {"getRounds", "getRound"} =>
       Distances(storage.item) = Distances(storage.before)

\* The ids of a list of rounds.
IdsOf(rs) == {rs[i].id : i \in 1 .. Len(rs)}

\* The rounds of rs with the given id.
WithId(rs, id) == {rs[i] : i \in {k \in 1 .. Len(rs) : rs[k].id = id}}

OnePerId(rs) ==
  \A i, j \in 1 .. Len(rs) : i # j => rs[i].id # rs[j].id

\* The valid entries of an import input, normalized.
ValidImported(json) ==
  IF json.kind # "array" THEN {}
  ELSE {normalizeRound(json.entries[i]) :
          i \in {k \in 1 .. Len(json.entries) : isValidRound(json.entries[k])}}

\* The part of a storage state an operation reads.
StoreOf(out) == [item |-> out.item, key |-> out.key]

\* C21: importRounds in merge mode leaves exactly one round per id of the
\* existing and the valid imported rounds; a round whose id is not imported
\* is an existing round, unchanged; a round whose id is imported is an
\* imported one; invalid entries add and change nothing.
C21_MergeKeepsOnePerId ==
  \A json \in ImportInputs :
    LET out      == importRoundsOn(storage, json, "merge")
        imported == ValidImported(json)
    IN  /\ OnePerId(out.item)
        /\ IdsOf(out.item) = IdsOf(storage.item) \cup {r.id : r \in imported}
        /\ \A i \in 1 .. Len(out.item) :
             IF \E r \in imported : r.id = out.item[i].id
             THEN out.item[i] \in imported
             ELSE out.item[i] \in WithId(storage.item, out.item[i].id)

\* C28: the stored round ids are pairwise distinct.
C28_StoredIdsDistinct == OnePerId(storage.item)

\* C29: for a stored round r and a shot s, addShot(r.id, s) appends s as
\* the last shot of r and changes no other round, and undoLastShot(r.id)
\* right after it leaves the list that was stored before the two calls.
C29_AddThenUndoRestores ==
  \A id \in IdsOf(storage.item), s \in StorageShots :
    LET idx   == findIndex(storage.item, id)
        added == addShotOn(storage, id, s)
        undone == undoLastShotOn(StoreOf(added), id)
    IN  /\ added.item =
             [storage.item EXCEPT ![idx].shots = Append(@, s)]
        /\ undone.item = storage.item

\* C30: a storage operation that cannot apply leaves the stored list
\* unchanged: addShot and undoLastShot with an id that is not stored return
\* undefined, updateRound with such an id does nothing, undoLastShot on a
\* round without shots removes nothing, and importRounds given unparseable
\* JSON, a non-array or no valid round returns the stored rounds, in both
\* modes.
C30_InapplicableChangesNothing ==
  /\ \A id \in StorageIds \ IdsOf(storage.item) :
       /\ \A s \in StorageShots :
            /\ addShotOn(storage, id, s).item = storage.item
            /\ ~addShotOn(storage, id, s).defined
       /\ undoLastShotOn(storage, id).item = storage.item
       /\ ~undoLastShotOn(storage, id).defined
       /\ \A r \in StorageRounds :
            r.id = id => updateRoundOn(storage, r).item = storage.item
  /\ \A id \in IdsOf(storage.item) :
       Len(storage.item[findIndex(storage.item, id)].shots) = 0 =>
         undoLastShotOn(storage, id).item = storage.item
  /\ \A json \in ImportInputs, mode \in {"merge", "replace"} :
       ValidImported(json) = {} =>
         /\ importRoundsOn(storage, json, mode).item = storage.item
         /\ importRoundsOn(storage, json, mode).defined
         /\ importRoundsOn(storage, json, mode).value = storage.item

(***************************************************************************)
(* The shipped table                                                       *)
(***************************************************************************)
\* C23: with the shipped table baselineIsComplete() is true, every
\* getExpectedStrokes call returns a number for each of the seven lies, and
\* every calculateStrokesGained call returns isValid = true.
C23_ShippedIsComplete ==
  IsShipped =>
    /\ baselineIsComplete
    /\ op = "getExpectedStrokes" => returned # Null /\ returned # Throws
    /\ op = "calculateStrokesGained" =>
         /\ ~frame.threw
         /\ frame.expectedStart # Null
         /\ frame.expectedEnd # Null
         /\ frame.result.isValid = TRUE

\* A shot from the FRINGE, which has no curve of its own, to the BUNKER is
\* valid with the shipped table.
C23_Witness ==
  /\ IsShipped
  /\ op = "calculateStrokesGained"
  /\ shot.startLie = "FRINGE"
  /\ IsFinite(shot.startDistance)
  /\ ~LessEq(shot.startDistance, Zero)
  /\ shot.endLie = "BUNKER"
  /\ shot.endDistance = Num(127, 2)
  /\ frame.result.isValid = TRUE
  /\ IsFinite(frame.result.sg)

====
